---- MODULE Spec2Model ----
(***************************************************************************)
(* nmea_navsat_driver: libnmea_navsat_driver/parser.py and driver.py.      *)
(*                                                                         *)
(* A sentence is a sequence of one-character strings.  The parser is       *)
(* modelled character by character (envelope regex, split on commas,       *)
(* slicing, int()/float() literals); the driver's add_sentence is one      *)
(* action that checks, parses, translates and publishes.                   *)
(*                                                                         *)
(* Values:                                                                 *)
(*   - a Python float is NaN == <<"nan">>, a parsed literal                *)
(*     <<"num", n, d>> (the decimal n/d, d a power of ten) or an           *)
(*     arithmetic term <<op, a, b>> over floats; NaN absorbs every         *)
(*     operation, as IEEE arithmetic has it;                               *)
(*   - a Python int is a TLA+ integer;                                     *)
(*   - an optional value (None or v) is <<>> or <<v>>;                     *)
(*   - a call's outcome is "None", "False" or the name of the exception    *)
(*     that left add_sentence.                                             *)
(***************************************************************************)
EXTENDS Integers, Sequences, FiniteSets, TLC

VARIABLES use_RMC, time_ref_source, clock,
          nmea_string, frame_id, timestamp,
          parsed_sentence, result, published, fix_sources

vars == <<use_RMC, time_ref_source, clock,
          nmea_string, frame_id, timestamp,
          parsed_sentence, result, published, fix_sources>>

(***************************************************************************)
(* Bounds of the model.                                                    *)
(***************************************************************************)
\* the system clock ranges over 0..MaxClock; it ticks twice a day
MaxClock == 2

\* the last UTC date (days since the epoch) the clock reaches
MaxDate == MaxClock \div 2

(***************************************************************************)
(* Characters and Python string primitives.                                *)
(***************************************************************************)
Digits == {"0", "1", "2", "3", "4", "5", "6", "7", "8", "9"}

HexDigits == Digits \cup {"A", "B", "C", "D", "E", "F", "a", "b", "c", "d", "e", "f"}

DigitVal(c) ==
    CASE c = "0" -> 0 [] c = "1" -> 1 [] c = "2" -> 2 [] c = "3" -> 3
      [] c = "4" -> 4 [] c = "5" -> 5 [] c = "6" -> 6 [] c = "7" -> 7
      [] c = "8" -> 8 [] c = "9" -> 9

Min(a, b) == IF a < b THEN a ELSE b

Max(a, b) == IF a < b THEN b ELSE a

\* s[a:b] with 0 <= a <= b
Slice(s, a, b) == SubSeq(s, a + 1, Min(b, Len(s)))

\* s[a:] with 0 <= a
SliceFrom(s, a) == SubSeq(s, a + 1, Len(s))

\* s.startswith(p)
StartsWith(s, p) == Len(s) >= Len(p) /\ SubSeq(s, 1, Len(p)) = p

\* s.find(sub): the 0-based index of the first occurrence, or -1
Find(s, sub) ==
    LET hits == {i \in 0..(Len(s) - Len(sub)) : SubSeq(s, i + 1, i + Len(sub)) = sub}
    IN  IF hits = {} THEN -1 ELSE CHOOSE i \in hits : \A j \in hits : i <= j

\* s.split(c)
RECURSIVE Split(_, _)
Split(s, c) ==
    LET at == {i \in 1..Len(s) : s[i] = c}
    IN  IF at = {} THEN <<s>>
        ELSE LET i == CHOOSE k \in at : \A j \in at : k <= j
             IN  <<SubSeq(s, 1, i - 1)>> \o Split(SubSeq(s, i + 1, Len(s)), c)

\* s.strip(c)
Strip(s, c) ==
    LET keep == {i \in 1..Len(s) : s[i] # c}
    IN  IF keep = {} THEN <<>>
        ELSE SubSeq(s, CHOOSE i \in keep : \A j \in keep : i <= j,
                       CHOOSE i \in keep : \A j \in keep : i >= j)

\* c.join(tokens)
RECURSIVE Join(_, _)
Join(tokens, c) ==
    IF Len(tokens) = 0 THEN <<>>
    ELSE IF Len(tokens) = 1 THEN tokens[1]
    ELSE tokens[1] \o <<c>> \o Join(Tail(tokens), c)

AllDigits(s) == \A i \in 1..Len(s) : s[i] \in Digits

RECURSIVE DigitsValue(_)
DigitsValue(s) ==
    IF Len(s) = 0 THEN 0
    ELSE 10 * DigitsValue(SubSeq(s, 1, Len(s) - 1)) + DigitVal(s[Len(s)])

RECURSIVE Pow10(_)
Pow10(k) == IF k = 0 THEN 1 ELSE 10 * Pow10(k - 1)

HasSign(s) == Len(s) > 0 /\ s[1] \in {"+", "-"}

Unsigned(s) == IF HasSign(s) THEN Tail(s) ELSE s

Signed(s, v) == IF HasSign(s) /\ s[1] = "-" THEN 0 - v ELSE v

\* int(s) succeeds: an optional sign and one or more digits (the model's
\* alphabet has no whitespace and no underscore)
IsIntLiteral(s) == Len(Unsigned(s)) > 0 /\ AllDigits(Unsigned(s))

IntValue(s) == Signed(s, DigitsValue(Unsigned(s)))

\* float(s) succeeds: an optional sign, digits with at most one point and at
\* least one digit (the model's alphabet has no exponent, "inf" or "nan")
IsFloatLiteral(s) ==
    LET u == Unsigned(s)
        points == {i \in 1..Len(u) : u[i] = "."}
    IN  /\ Cardinality(points) <= 1
        /\ \A i \in 1..Len(u) : u[i] \in Digits \cup {"."}
        /\ \E i \in 1..Len(u) : u[i] \in Digits

(***************************************************************************)
(* Floats.                                                                 *)
(***************************************************************************)
NaN == <<"nan">>

IsNaN(f) == f[1] = "nan"

RECURSIVE Reduce(_, _)
Reduce(n, d) ==
    IF d > 1 /\ n % 10 = 0 THEN Reduce(n \div 10, d \div 10) ELSE <<"num", n, d>>

Num(n, d) == IF n = 0 THEN <<"num", 0, 1>> ELSE Reduce(n, d)

FloatValue(s) ==
    LET u == Unsigned(s)
        p == Find(u, <<".">>)
        whole == IF p = -1 THEN u ELSE Slice(u, 0, p)
        frac == IF p = -1 THEN <<>> ELSE SliceFrom(u, p + 1)
    IN  Num(Signed(s, DigitsValue(whole \o frac)), Pow10(Len(frac)))

\* a binary float operation
FOp(op, a, b) == IF IsNaN(a) \/ IsNaN(b) THEN NaN ELSE <<op, a, b>>

\* -a
FNeg(a) == IF IsNaN(a) THEN NaN ELSE <<"neg", a>>

\* math.sin(a), math.cos(a), math.radians(a)
FFun(fn, a) == IF IsNaN(a) THEN NaN ELSE <<fn, a>>

\* bool(f) of a float or int value: zero is false, NaN is true
Truthy(f) == IsNaN(f) \/ f[1] # "num" \/ f[2] # 0

(***************************************************************************)
(* checksum_utils.check_nmea_checksum.  The module is imported by          *)
(* driver.py and is not among the source files; it is modelled from the    *)
(* ChecksumValidator contract: XOR of the bytes strictly between "$" and   *)
(* "*", rendered as two uppercase hex digits and compared, ignoring case,  *)
(* with the text after "*".                                                *)
(***************************************************************************)
UpperCase == <<"A", "B", "C", "D", "E", "F", "G", "H", "I", "J", "K", "L", "M",
               "N", "O", "P", "Q", "R", "S", "T", "U", "V", "W", "X", "Y", "Z">>

LowerCase == <<"a", "b", "c", "d", "e", "f", "g", "h", "i", "j", "k", "l", "m",
               "n", "o", "p", "q", "r", "s", "t", "u", "v", "w", "x", "y", "z">>

IndexIn(seq, c) == CHOOSE i \in 1..Len(seq) : seq[i] = c

\* ord(c), for the characters of the model's alphabet
Ord(c) ==
    CASE c \in Digits -> 48 + DigitVal(c)
      [] c \in {UpperCase[i] : i \in 1..26} -> 64 + IndexIn(UpperCase, c)
      [] c \in {LowerCase[i] : i \in 1..26} -> 96 + IndexIn(LowerCase, c)
      [] c = "$" -> 36
      [] c = "*" -> 42
      [] c = "+" -> 43
      [] c = "," -> 44
      [] c = "-" -> 45
      [] c = "." -> 46

\* c.upper()
ToUpper(c) ==
    IF c \in {LowerCase[i] : i \in 1..26} THEN UpperCase[IndexIn(LowerCase, c)] ELSE c

RECURSIVE BitXor(_, _)
BitXor(a, b) ==
    IF a = 0 /\ b = 0 THEN 0
    ELSE (((a % 2) + (b % 2)) % 2) + 2 * BitXor(a \div 2, b \div 2)

\* the XOR of ord(s[i]) for lo <= i <= hi
RECURSIVE XorRange(_, _, _)
XorRange(s, lo, hi) ==
    IF lo > hi THEN 0
    ELSE IF lo = hi THEN Ord(s[lo])
    ELSE BitXor(XorRange(s, lo, (lo + hi) \div 2),
                XorRange(s, ((lo + hi) \div 2) + 1, hi))

XorBytes(s) == XorRange(s, 1, Len(s))

HexUpper == <<"0", "1", "2", "3", "4", "5", "6", "7", "8", "9",
              "A", "B", "C", "D", "E", "F">>

\* "%02X" % v
Hex2(v) == <<HexUpper[(v \div 16) + 1], HexUpper[(v % 16) + 1]>>

check_nmea_checksum(nmea_sentence) ==
    LET parts == Split(nmea_sentence, "*")
    IN  IF Len(parts) # 2 \/ ~StartsWith(nmea_sentence, <<"$">>) THEN FALSE
        ELSE [i \in 1..Len(parts[2]) |-> ToUpper(parts[2][i])]
                 = Hex2(XorBytes(Tail(parts[1])))

(***************************************************************************)
(* parser.py: the converters.  A converter's outcome is                    *)
(* [exc |-> "", val |-> v] when it returns v and [exc |-> E, val |-> NaN]  *)
(* when it raises E.                                                       *)
(***************************************************************************)
Returns(v) == [exc |-> "", val |-> v]

Raises(e) == [exc |-> e, val |-> NaN]

safe_float(field) == IF IsFloatLiteral(field) THEN FloatValue(field) ELSE NaN

safe_int(field) == IF IsIntLiteral(field) THEN IntValue(field) ELSE 0

convert_latitude(field) ==
    FOp("+", safe_float(Slice(field, 0, 2)),
             FOp("/", safe_float(SliceFrom(field, 2)), Num(60, 1)))

convert_longitude(field) ==
    FOp("+", safe_float(Slice(field, 0, 3)),
             FOp("/", safe_float(SliceFrom(field, 3)), Num(60, 1)))

\* calendar.timegm of the date read from the clock with the hour, minute and
\* second replaced
timegm(date, hours, minutes, seconds) ==
    date * 86400 + hours * 3600 + minutes * 60 + seconds

\* date: the date time.gmtime() reads from the system clock
convert_time(nmea_utc, date) ==
    LET hh == Slice(nmea_utc, 0, 2)
        mm == Slice(nmea_utc, 2, 4)
        ss == Slice(nmea_utc, 4, 6)
    IN  IF hh = <<>> \/ mm = <<>> \/ ss = <<>> THEN Returns(NaN)
        ELSE IF ~IsIntLiteral(hh) \/ ~IsIntLiteral(mm) \/ ~IsIntLiteral(ss)
             THEN Raises("ValueError")
        ELSE Returns(Num(timegm(date, IntValue(hh), IntValue(mm), IntValue(ss)), 1))

convert_status_flag(status_flag) ==
    IF status_flag = <<"A">> THEN TRUE
    ELSE IF status_flag = <<"V">> THEN FALSE
    ELSE FALSE

convert_knots_to_mps(knots) ==
    FOp("*", safe_float(knots), <<"const", "0.514444444444">>)

convert_deg_to_rads(degs) == FFun("radians", safe_float(degs))

\* entry[1](field) of the parsing loop
Convert(converter, field, date) ==
    CASE converter = "safe_float" -> Returns(safe_float(field))
      [] converter = "safe_int" -> Returns(safe_int(field))
      [] converter = "convert_latitude" -> Returns(convert_latitude(field))
      [] converter = "convert_longitude" -> Returns(convert_longitude(field))
      [] converter = "convert_time" -> convert_time(field, date)
      [] converter = "convert_status_flag" -> Returns(convert_status_flag(field))
      [] converter = "convert_knots_to_mps" -> Returns(convert_knots_to_mps(field))
      [] converter = "convert_deg_to_rads" -> Returns(convert_deg_to_rads(field))
      [] converter = "str" -> Returns(field)

(***************************************************************************)
(* parser.py: parse_maps and parse_nmea_sentence.                          *)
(***************************************************************************)
GGA == <<"G", "G", "A">>
VTG == <<"V", "T", "G">>
PJT == <<"P", "J", "T">>
AVR == <<"A", "V", "R">>
HDT == <<"H", "D", "T">>
ROT == <<"R", "O", "T">>
RMC == <<"R", "M", "C">>
LLQ == <<"L", "L", "Q">>
DG == <<"D", "G">>

SentenceTypes == {GGA, VTG, PJT, AVR, HDT, ROT, RMC, LLQ}

\* parse_maps[sentence_type]: <<field name, converter, token index>>
parse_maps(sentence_type) ==
    CASE sentence_type = GGA ->
           << <<"fix_type", "safe_int", 6>>,
              <<"latitude", "convert_latitude", 2>>,
              <<"latitude_direction", "str", 3>>,
              <<"longitude", "convert_longitude", 4>>,
              <<"longitude_direction", "str", 5>>,
              <<"altitude", "safe_float", 9>>,
              <<"mean_sea_level", "safe_float", 11>>,
              <<"hdop", "safe_float", 8>>,
              <<"num_satellites", "safe_int", 7>>,
              <<"utc_time", "convert_time", 1>> >>
      [] sentence_type = VTG ->
           << <<"speed_knots", "safe_float", 5>>,
              <<"speed_kph", "safe_float", 7>>,
              <<"mode", "str", 9>> >>
      [] sentence_type = PJT ->
           << <<"coordinate_system", "str", 1>>,
              <<"project_name", "str", 2>> >>
      [] sentence_type = AVR ->
           << <<"yaw", "safe_float", 2>>,
              <<"pitch", "safe_float", 4>>,
              <<"roll", "safe_float", 6>>,
              <<"fix_type", "safe_int", 9>>,
              <<"PDOP", "safe_int", 20>>,
              <<"num_satellites", "safe_int", 11>> >>
      [] sentence_type = HDT ->
           << <<"heading_north", "safe_float", 1>> >>
      [] sentence_type = ROT ->
           << <<"rate", "safe_int", 1>>,
              <<"validity", "str", 2>> >>
      [] sentence_type = RMC ->
           << <<"utc_time", "convert_time", 1>>,
              <<"fix_valid", "convert_status_flag", 2>>,
              <<"latitude", "convert_latitude", 3>>,
              <<"latitude_direction", "str", 4>>,
              <<"longitude", "convert_longitude", 5>>,
              <<"longitude_direction", "str", 6>>,
              <<"speed", "convert_knots_to_mps", 7>>,
              <<"true_course", "convert_deg_to_rads", 8>> >>
      [] sentence_type = LLQ ->
           << <<"easting", "safe_float", 3>>,
              <<"northing", "safe_float", 5>>,
              <<"fix_type", "safe_int", 7>>,
              <<"position_quality", "safe_float", 9>>,
              <<"height", "safe_float", 10>>,
              <<"utc_time", "convert_time", 1>> >>

\* re.match('^\$(GP|GN|PTNL).*\*[0-9A-Fa-f]{2}$', s) with the given talkers
EnvelopeMatches(s, talkers) ==
    \E t \in talkers :
        /\ StartsWith(s, <<"$">> \o t)
        /\ Len(s) >= 1 + Len(t) + 3
        /\ s[Len(s) - 2] = "*"
        /\ s[Len(s) - 1] \in HexDigits
        /\ s[Len(s)] \in HexDigits

GP == <<"G", "P">>
GN == <<"G", "N">>
PTNL == <<"P", "T", "N", "L">>

\* fields[0].find("PTNLDG") used as a condition: any result but 0 is true
IsTrimbleDG(field0) == Find(field0, PTNL \o DG) # 0

\* lines 179-193: the type named by the first token
sentence_type_of(nmea_sentence) ==
    LET split == Split(nmea_sentence, ",")
        fields == [i \in 1..Len(split) |-> Strip(split[i], ",")]
    IN  IF EnvelopeMatches(nmea_sentence, {PTNL})
        THEN IF IsTrimbleDG(fields[1]) THEN DG ELSE SliceFrom(fields[1], 5)
        ELSE SliceFrom(fields[1], 3)

\* the parsing loop of lines 202-204: the exception that ends it at or after
\* entry k, "" when it runs to the end
RECURSIVE LoopError(_, _, _, _)
LoopError(parse_map, fields, date, k) ==
    IF k > Len(parse_map) THEN ""
    ELSE IF parse_map[k][3] >= Len(fields) THEN "IndexError"
    ELSE IF Convert(parse_map[k][2], fields[parse_map[k][3] + 1], date).exc # ""
         THEN Convert(parse_map[k][2], fields[parse_map[k][3] + 1], date).exc
    ELSE LoopError(parse_map, fields, date, k + 1)

\* what parse_nmea_sentence returns ("False", or "dict" with the sentence
\* type and its fields) or raises
Rejected == [status |-> "False", type |-> <<>>, data |-> <<>>]

Raised(e) == [status |-> e, type |-> <<>>, data |-> <<>>]

parse_nmea_sentence(nmea_sentence, date) ==
    IF ~EnvelopeMatches(nmea_sentence, {GP, GN, PTNL}) THEN Rejected
    ELSE
      LET split == Split(nmea_sentence, ",")
          fields == [i \in 1..Len(split) |-> Strip(split[i], ",")]
          sentence_type == sentence_type_of(nmea_sentence)
      IN  IF sentence_type \notin SentenceTypes THEN Rejected
          ELSE
            LET parse_map == parse_maps(sentence_type)
                err == LoopError(parse_map, fields, date, 1)
                names == {parse_map[k][1] : k \in 1..Len(parse_map)}
                entry(n) == parse_map[CHOOSE k \in 1..Len(parse_map) : parse_map[k][1] = n]
            IN  IF err # "" THEN Raised(err)
                ELSE [status |-> "dict",
                      type |-> sentence_type,
                      data |-> [n \in names |->
                                  Convert(entry(n)[2], fields[entry(n)[3] + 1], date).val]]

(***************************************************************************)
(* driver.py: the messages RosNMEADriver.add_sentence builds.              *)
(***************************************************************************)
Zero == Num(0, 1)

\* NavSatFix() with the header set (lines 76-78); position_covariance holds
\* entries 0, 4 and 8
NavSatFix(current_time, frame) ==
    [stamp |-> current_time, frame_id |-> frame,
     status |-> "STATUS_FIX", service |-> "0",
     latitude |-> Zero, longitude |-> Zero, altitude |-> Zero,
     position_covariance |-> <<Zero, Zero, Zero>>,
     position_covariance_type |-> "COVARIANCE_TYPE_UNKNOWN"]

\* fix_status without the branch for quality 9
fix_status_without_9(gps_qual) ==
    IF gps_qual = 0 THEN "STATUS_NO_FIX"
    ELSE IF gps_qual = 1 THEN "STATUS_FIX"
    ELSE IF gps_qual = 2 THEN "STATUS_SBAS_FIX"
    ELSE IF gps_qual \in {4, 5} THEN "STATUS_GBAS_FIX"
    ELSE "STATUS_NO_FIX"

\* lines 90-103
fix_status(gps_qual) ==
    IF gps_qual = 0 THEN "STATUS_NO_FIX"
    ELSE IF gps_qual = 1 THEN "STATUS_FIX"
    ELSE IF gps_qual = 2 THEN "STATUS_SBAS_FIX"
    ELSE IF gps_qual \in {4, 5} THEN "STATUS_GBAS_FIX"
    ELSE IF gps_qual = 9 THEN "STATUS_SBAS_FIX"
    ELSE "STATUS_NO_FIX"

\* lines 109-117 and 148-156: the hemisphere letter negates the coordinate
signed_coordinate(value, direction, negative) ==
    IF direction = negative THEN FNeg(value) ELSE value

\* lines 87-128: current_fix as the GGA branch fills it
gga_fix(data, current_time, frame) ==
    [NavSatFix(current_time, frame) EXCEPT
        !.status = fix_status(data["fix_type"]),
        !.service = "SERVICE_GPS",
        !.latitude = signed_coordinate(data["latitude"], data["latitude_direction"], <<"S">>),
        !.longitude = signed_coordinate(data["longitude"], data["longitude_direction"], <<"W">>),
        !.position_covariance =
            << FOp("**", data["hdop"], Num(2, 1)),
               FOp("**", data["hdop"], Num(2, 1)),
               FOp("**", FOp("*", Num(2, 1), data["hdop"]), Num(2, 1)) >>,
        !.position_covariance_type = "COVARIANCE_TYPE_APPROXIMATED",
        !.altitude = FOp("+", data["altitude"], data["mean_sea_level"])]

\* lines 141-160: current_fix as the RMC branch fills it
rmc_fix(data, current_time, frame) ==
    [NavSatFix(current_time, frame) EXCEPT
        !.status = IF data["fix_valid"] THEN "STATUS_FIX" ELSE "STATUS_NO_FIX",
        !.service = "SERVICE_GPS",
        !.latitude = signed_coordinate(data["latitude"], data["latitude_direction"], <<"S">>),
        !.longitude = signed_coordinate(data["longitude"], data["longitude_direction"], <<"W">>),
        !.altitude = NaN,
        !.position_covariance_type = "COVARIANCE_TYPE_UNKNOWN"]

\* lines 79-85: the source label of the time reference
time_ref_label(source, frame) == IF source # <<>> THEN source[1] ELSE frame

\* time_reference without the NaN test
time_reference_unguarded(data, current_time, frame, source) ==
    << <<"time_reference",
         [stamp |-> current_time, frame_id |-> frame,
          source |-> time_ref_label(source, frame),
          time_ref |-> data["utc_time"]]>> >>

\* lines 132-134 and 164-166: the time reference published after a fix
time_reference(data, current_time, frame, source) ==
    IF ~IsNaN(data["utc_time"])
    THEN << <<"time_reference",
              [stamp |-> current_time, frame_id |-> frame,
               source |-> time_ref_label(source, frame),
               time_ref |-> data["utc_time"]]>> >>
    ELSE <<>>

\* lines 130-134: what the GGA branch publishes
gga_branch(data, current_time, frame, source) ==
    << <<"fix", gga_fix(data, current_time, frame)>> >>
        \o time_reference(data, current_time, frame, source)

\* rmc_fix_branch without the use_RMC test
rmc_fix_branch_always(data, current_time, frame, source, useRMC) ==
    << <<"fix", rmc_fix(data, current_time, frame)>> >>
        \o time_reference(data, current_time, frame, source)

\* lines 140-166: the fix of the RMC branch, published under use_RMC only
rmc_fix_branch(data, current_time, frame, source, useRMC) ==
    IF useRMC
    THEN << <<"fix", rmc_fix(data, current_time, frame)>> >>
            \o time_reference(data, current_time, frame, source)
    ELSE <<>>

\* lines 169-182: the velocities of the RMC branch
rmc_velocity(data, current_time, frame) ==
    IF data["fix_valid"]
    THEN << <<"vel",
              [stamp |-> current_time, frame_id |-> frame,
               x |-> FOp("*", data["speed"], FFun("sin", data["true_course"])),
               y |-> FOp("*", data["speed"], FFun("cos", data["true_course"])),
               z |-> Zero]>>,
            <<"vel_local",
              [stamp |-> current_time, frame_id |-> frame,
               linear_x |-> data["speed"]]>> >>
    ELSE <<>>

\* lines 185-186
hdt_branch(data) ==
    IF Truthy(data["heading_north"])
    THEN << <<"hdt", [data |-> data["heading_north"]]>> >>
    ELSE <<>>

\* lines 189-193
rot_branch(data, current_time, frame) ==
    << <<"rot",
         [stamp |-> current_time, frame_id |-> frame,
          angular_z |-> FOp("*", FOp("/", FOp("*", Num(data["rate"], 1), Num(314, 100)),
                                          Num(180, 1)),
                                 Num(60, 1))]>> >>

\* lines 196-200
vtg_branch(data, current_time, frame) ==
    << <<"speed",
         [stamp |-> current_time, frame_id |-> frame,
          linear_x |-> FOp("*", FOp("/", data["speed_kph"], Num(360, 1)), Num(1000, 1))]>> >>

(***************************************************************************)
(* driver.py: RosNMEADriver.add_sentence.  The outcome of a call is what   *)
(* it returns or raises, the messages it published in order, and what      *)
(* parse_nmea_sentence gave it.                                            *)
(***************************************************************************)
Outcome(res, msgs, parsed) == [result |-> res, published |-> msgs, parsed |-> parsed]

\* lines 72-75: a timestamp that is None or zero is replaced by the ROS clock
current_time_of(ts, ros) == IF ts # <<>> /\ ts[1] # 0 THEN ts[1] ELSE ros

\* lines 87-212: the branches, for a sentence parse_nmea_sentence decoded
translate(parsed, current_time, frame, source, useRMC) ==
    LET data == parsed.data
    IN  IF ~useRMC /\ parsed.type = GGA
        THEN Outcome("None", gga_branch(data, current_time, frame, source), parsed)
        ELSE IF parsed.type = RMC
        THEN Outcome("None",
                     rmc_fix_branch(data, current_time, frame, source, useRMC)
                         \o rmc_velocity(data, current_time, frame),
                     parsed)
        ELSE IF parsed.type = HDT
        THEN Outcome("None", hdt_branch(data), parsed)
        ELSE IF parsed.type = ROT
        THEN Outcome("None", rot_branch(data, current_time, frame), parsed)
        ELSE IF parsed.type = VTG
        THEN Outcome("None", vtg_branch(data, current_time, frame), parsed)
        ELSE IF parsed.type = AVR
        \* line 204 reads current_timecur, a name bound nowhere
        THEN Outcome("NameError", <<>>, parsed)
        ELSE Outcome("False", <<>>, parsed)

(***************************************************************************)
(* The inputs: the sentences a receiver (or a noisy line) delivers.  A     *)
(* sentence is built from its tokens and framed by "$" and "*hh".          *)
(***************************************************************************)
\* a framed sentence with the checksum of its body
Framed(tokens) ==
    LET body == Join(tokens, ",") IN <<"$">> \o body \o <<"*">> \o Hex2(XorBytes(body))

\* a framed sentence whose checksum digits are lower case
FramedLower(tokens) ==
    LET s == Framed(tokens)
        lower(c) == IF c \in {UpperCase[i] : i \in 1..26}
                    THEN LowerCase[IndexIn(UpperCase, c)] ELSE c
    IN  [i \in 1..Len(s) |-> IF i > Len(s) - 2 THEN lower(s[i]) ELSE s[i]]

\* a framed sentence whose checksum was damaged on the line
Tampered(tokens) ==
    LET body == Join(tokens, ",")
    IN  <<"$">> \o body \o <<"*">> \o Hex2(BitXor(XorBytes(body), 1))

\* tokens with the token at 0-based index idx replaced
With(tokens, idx, token) == [tokens EXCEPT ![idx + 1] = token]

\* the first n tokens
Truncate(tokens, n) == SubSeq(tokens, 1, n)

\* $GPGGA,123519,4807.038,N,01131.000,E,1,08,0.9,545.4,M,46.9,M,,
GGATokens ==
    << <<"G", "P", "G", "G", "A">>, <<"1", "2", "3", "5", "1", "9">>,
       <<"4", "8", "0", "7", ".", "0", "3", "8">>, <<"N">>,
       <<"0", "1", "1", "3", "1", ".", "0", "0", "0">>, <<"E">>, <<"1">>, <<"0", "8">>,
       <<"0", ".", "9">>, <<"5", "4", "5", ".", "4">>, <<"M">>, <<"4", "6", ".", "9">>,
       <<"M">>, <<>>, <<>> >>

\* $GPRMC,123519,A,4807.038,N,01131.000,E,022.4,084.4,230394,003.1,W
RMCTokens ==
    << <<"G", "P", "R", "M", "C">>, <<"1", "2", "3", "5", "1", "9">>, <<"A">>,
       <<"4", "8", "0", "7", ".", "0", "3", "8">>, <<"N">>,
       <<"0", "1", "1", "3", "1", ".", "0", "0", "0">>, <<"E">>, <<"0", "2", "2", ".", "4">>,
       <<"0", "8", "4", ".", "4">>, <<"2", "3", "0", "3", "9", "4">>,
       <<"0", "0", "3", ".", "1">>, <<"W">> >>

\* $GPHDT,274.07,T
HDTTokens ==
    << <<"G", "P", "H", "D", "T">>, <<"2", "7", "4", ".", "0", "7">>, <<"T">> >>

\* $GPROT,35,A
ROTTokens ==
    << <<"G", "P", "R", "O", "T">>, <<"3", "5">>, <<"A">> >>

\* $GPVTG,054.7,T,034.4,M,005.5,N,010.2,K,A
VTGTokens ==
    << <<"G", "P", "V", "T", "G">>, <<"0", "5", "4", ".", "7">>, <<"T">>,
       <<"0", "3", "4", ".", "4">>, <<"M">>, <<"0", "0", "5", ".", "5">>, <<"N">>,
       <<"0", "1", "0", ".", "2">>, <<"K">>, <<"A">> >>

\* an AVR sentence long enough for the AVR field table (21 tokens)
AVRTokens ==
    << <<"G", "P", "A", "V", "R">>, <<"2", "1", "2", "4", "0", "5", ".", "2", "0">>,
       <<"+", "5", "2", ".", "1", "5", "3", "1">>, <<"Y", "a", "w">>,
       <<"-", "0", ".", "0", "8", "0", "6">>, <<"T", "i", "l", "t">>, <<"+", "1", ".", "5">>,
       <<"R", "o", "l", "l">>, <<"1", "2", ".", "5", "7", "5">>, <<"3">>, <<"1", ".", "4">>,
       <<"1", "6">>, <<>>, <<>>, <<>>, <<>>, <<>>, <<>>, <<>>, <<>>, <<"2">> >>

\* $PTNL,AVR,... as a Trimble receiver sends it
TrimbleAVRTokens ==
    << <<"P", "T", "N", "L">>, <<"A", "V", "R">>,
       <<"2", "1", "2", "4", "0", "5", ".", "2", "0">>,
       <<"+", "5", "2", ".", "1", "5", "3", "1">>, <<"Y", "a", "w">>,
       <<"-", "0", ".", "0", "8", "0", "6">>, <<"T", "i", "l", "t">>, <<>>, <<>>,
       <<"1", "2", ".", "5", "7", "5">>, <<"3">>, <<"1", ".", "4">>, <<"1", "6">> >>

\* a PTNL sentence naming the type PJT right after the prefix
PJTTokens ==
    << <<"P", "T", "N", "L", "P", "J", "T">>, <<"W", "G", "S", "8", "4">>,
       <<"S", "I", "T", "E">> >>

\* a PTNL sentence naming the type LLQ right after the prefix
LLQTokens ==
    << <<"P", "T", "N", "L", "L", "L", "Q">>, <<"1", "2", "3", "5", "1", "9">>,
       <<"2", "3", "0", "3", "9", "4">>, <<"1", "0", "0", ".", "5">>, <<"M">>,
       <<"2", "0", "0", ".", "5">>, <<"M">>, <<"3">>, <<"0", "8">>, <<"0", ".", "9">>,
       <<"3", "0", ".", "1">>, <<"M">> >>

\* a PTNL DG sentence, its first field not separated by a comma
DGTokens ==
    << <<"P", "T", "N", "L", "D", "G", "4", "4", ".", "0">>, <<"3", "3", ".", "0">>,
       <<"1", "5", "3", "9">>, <<"0">>, <<"4">>, <<"3">>, <<>>, <<>> >>

\* a sentence of a type with no field table
GSVTokens ==
    << <<"G", "P", "G", "S", "V">>, <<"3">>, <<"1">>, <<"1", "1">>, <<"0", "3">>, <<"0", "3">>,
       <<"1", "1", "1">>, <<"0", "0">> >>

\* a sentence of a talker the envelope does not admit
GLTokens ==
    << <<"G", "L", "G", "G", "A">>, <<"1", "2", "3", "5", "1", "9">>,
       <<"4", "8", "0", "7", ".", "0", "3", "8">>, <<"N">>,
       <<"0", "1", "1", "3", "1", ".", "0", "0", "0">>, <<"E">>, <<"1">>, <<"0", "8">>,
       <<"0", ".", "9">>, <<"5", "4", "5", ".", "4">>, <<"M">>, <<"4", "6", ".", "9">>,
       <<"M">>, <<>>, <<>> >>

\* fix-quality tokens of a GGA sentence
QualityTokens ==
    << <<"0">>,
       <<"1">>,
       <<"2">>,
       <<"3">>,
       <<"4">>,
       <<"5">>,
       <<"9">>,
       <<>>,
       <<"x">> >>

\* time-of-day tokens
TimeTokens ==
    << <<>>,
       <<"1", "2", "3", "5">>,
       <<"1", "2", "a", "b", "5", "6">>,
       <<"0", "0", "0", "0", "0", "0">> >>

\* heading tokens of an HDT sentence
HeadingTokens ==
    << <<"0", ".", "0">>,
       <<"-", "0", ".", "0">>,
       <<>>,
       <<"x">> >>

\* the sentences the calls draw from
SentenceIds == 1..50

Sentence(i) ==
    CASE i = 1 -> Framed(With(GGATokens, 6, QualityTokens[1]))
      [] i = 2 -> Framed(With(GGATokens, 6, QualityTokens[2]))
      [] i = 3 -> Framed(With(GGATokens, 6, QualityTokens[3]))
      [] i = 4 -> Framed(With(GGATokens, 6, QualityTokens[4]))
      [] i = 5 -> Framed(With(GGATokens, 6, QualityTokens[5]))
      [] i = 6 -> Framed(With(GGATokens, 6, QualityTokens[6]))
      [] i = 7 -> Framed(With(GGATokens, 6, QualityTokens[7]))
      [] i = 8 -> Framed(With(GGATokens, 6, QualityTokens[8]))
      [] i = 9 -> Framed(With(GGATokens, 6, QualityTokens[9]))
      [] i = 10 -> Framed(With(GGATokens, 1, TimeTokens[1]))
      [] i = 11 -> Framed(With(GGATokens, 1, TimeTokens[2]))
      [] i = 12 -> Framed(With(GGATokens, 1, TimeTokens[3]))
      [] i = 13 -> Framed(With(GGATokens, 1, TimeTokens[4]))
      [] i = 14 -> Framed(With(With(GGATokens, 3, <<"S">>), 5, <<"W">>))
      [] i = 15 -> Framed(With(GGATokens, 9, <<>>))
      [] i = 16 -> Framed(With(GGATokens, 0, <<"G", "N", "G", "G", "A">>))
      [] i = 17 -> FramedLower(With(GGATokens, 6, <<"4">>))
      [] i = 18 -> Framed(Truncate(GGATokens, 10))
      [] i = 19 -> Framed(Truncate(With(GGATokens, 1, <<"1", "2", "a", "b", "5", "6">>), 6))
      [] i = 20 -> Tampered(GGATokens)
      [] i = 21 -> Framed(RMCTokens)
      [] i = 22 -> Framed(With(RMCTokens, 1, <<>>))
      [] i = 23 -> Framed(With(RMCTokens, 1, <<"1", "2", "a", "b", "5", "6">>))
      [] i = 24 -> Framed(With(RMCTokens, 2, <<"V">>))
      [] i = 25 -> Framed(With(With(RMCTokens, 4, <<"S">>), 6, <<"W">>))
      [] i = 26 -> Framed(Truncate(RMCTokens, 8))
      [] i = 27 -> Tampered(RMCTokens)
      [] i = 28 -> Framed(With(HDTTokens, 1, HeadingTokens[1]))
      [] i = 29 -> Framed(With(HDTTokens, 1, HeadingTokens[2]))
      [] i = 30 -> Framed(With(HDTTokens, 1, HeadingTokens[3]))
      [] i = 31 -> Framed(With(HDTTokens, 1, HeadingTokens[4]))
      [] i = 32 -> Framed(HDTTokens)
      [] i = 33 -> Framed(Truncate(HDTTokens, 1))
      [] i = 34 -> Framed(ROTTokens)
      [] i = 35 -> Framed(With(ROTTokens, 1, <<"3", "5", ".", "6">>))
      [] i = 36 -> Framed(Truncate(ROTTokens, 2))
      [] i = 37 -> Framed(VTGTokens)
      [] i = 38 -> Framed(Truncate(VTGTokens, 9))
      [] i = 39 -> Framed(AVRTokens)
      [] i = 40 -> Framed(With(AVRTokens, 9, <<"0">>))
      [] i = 41 -> Framed(Truncate(AVRTokens, 13))
      [] i = 42 -> Framed(With(AVRTokens, 0, <<"P", "T", "N", "L", "A", "V", "R">>))
      [] i = 43 -> Framed(TrimbleAVRTokens)
      [] i = 44 -> Framed(PJTTokens)
      [] i = 45 -> Framed(LLQTokens)
      [] i = 46 -> Framed(DGTokens)
      [] i = 47 -> Framed(GSVTokens)
      [] i = 48 -> Framed(GLTokens)
      [] i = 49 -> Join(GGATokens, ",")
      [] i = 50 -> <<"$">> \o Join(GGATokens, ",")

FrameIds == {"gps", "/antenna"}

\* None, a zero time and a non-zero time
Timestamps == {<<>>, <<0>>, <<7>>}

TimeRefSources == {<<>>, <<"gps_time">>}

\* the date time.gmtime() reads (days since the epoch) and the time
\* rospy.get_rostime() reads, when the system clock shows c
utc_date_of(c) == c \div 2

rostime_of(c) == c

\* check_nmea_checksum and parse_nmea_sentence are pure but for the date read
\* from the clock: their values over the inputs, computed once
checksum_of == [i \in SentenceIds |-> check_nmea_checksum(Sentence(i))]

parse_of ==
    [i \in SentenceIds |-> [date \in 0..MaxDate |-> parse_nmea_sentence(Sentence(i), date)]]

\* lines 61-212, given what check_nmea_checksum (line 62) and
\* parse_nmea_sentence (line 66) gave; the parser is not called when the
\* checksum is wrong
add_sentence(checksum_ok, parsed, frame, ts, source, useRMC, ros) ==
    IF ~checksum_ok THEN Outcome("False", <<>>, Rejected)
    ELSE IF parsed.status = "False" THEN Outcome("False", <<>>, parsed)
    ELSE IF parsed.status # "dict" THEN Outcome(parsed.status, <<>>, parsed)
    ELSE translate(parsed, current_time_of(ts, ros), frame, source, useRMC)

(***************************************************************************)
(* The state machine.  use_RMC and time_ref_source are read once, in       *)
(* __init__; nmea_string (as a member of SentenceIds, 0 before the first   *)
(* call), frame_id and timestamp are the arguments of the last call,       *)
(* parsed_sentence, result and published its outcome; fix_sources          *)
(* collects the sentence types whose fix was published.                    *)
(***************************************************************************)
NoCall == ""

Init ==
    /\ use_RMC \in BOOLEAN
    /\ time_ref_source \in TimeRefSources
    /\ clock = 0
    /\ nmea_string = 0
    /\ frame_id = ""
    /\ timestamp = <<>>
    /\ parsed_sentence = Rejected
    /\ result = NoCall
    /\ published = <<>>
    /\ fix_sources = {}

Topics(msgs) == {msgs[i][1] : i \in 1..Len(msgs)}

\* one call of driver.add_sentence(Sentence(i), frame, ts)
AddSentence ==
    \E i \in SentenceIds :
        LET checksum_ok == checksum_of[i]
            parsed == parse_of[i][utc_date_of(clock)]
        IN  \E frame \in FrameIds, ts \in Timestamps :
              LET o == add_sentence(checksum_ok, parsed, frame, ts, time_ref_source,
                                    use_RMC, rostime_of(clock))
              IN  /\ nmea_string' = i
                  /\ frame_id' = frame
                  /\ timestamp' = ts
                  /\ parsed_sentence' = o.parsed
                  /\ result' = o.result
                  /\ published' = o.published
                  /\ fix_sources' = IF "fix" \in Topics(o.published)
                                    THEN fix_sources \cup {o.parsed.type}
                                    ELSE fix_sources
                  /\ UNCHANGED <<use_RMC, time_ref_source, clock>>

\* the system clock advances
Tick ==
    /\ clock < MaxClock
    /\ clock' = clock + 1
    /\ UNCHANGED <<use_RMC, time_ref_source, nmea_string, frame_id,
                   timestamp, parsed_sentence, result, published, fix_sources>>

Next == AddSentence \/ Tick

Spec == Init /\ [][Next]_vars

(***************************************************************************)
(* Properties.  What the text of the last call's sentence says, computed   *)
(* once over the inputs.                                                   *)
(***************************************************************************)
\* the comma-separated tokens of the i-th sentence
fields_of ==
    [i \in SentenceIds |->
        LET split == Split(Sentence(i), ",")
        IN  [k \in 1..Len(split) |-> Strip(split[k], ",")]]

\* the highest token index of a field table
highest_index(sentence_type) ==
    LET used == {parse_maps(sentence_type)[k][3] : k \in 1..Len(parse_maps(sentence_type))}
    IN  CHOOSE m \in used : \A n \in used : n <= m

\* why the i-th sentence is to be rejected, "" when it is not
reject_reason ==
    [i \in SentenceIds |->
        IF ~check_nmea_checksum(Sentence(i)) THEN "InvalidChecksum"
        ELSE IF ~EnvelopeMatches(Sentence(i), {GP, GN, PTNL}) THEN "MalformedEnvelope"
        ELSE IF sentence_type_of(Sentence(i)) \notin SentenceTypes THEN "UnknownSentenceType"
        ELSE IF Len(fields_of[i]) < highest_index(sentence_type_of(Sentence(i)))
             THEN "TruncatedSentence"
        ELSE ""]

\* the i-th sentence has a token for every entry of its field table
has_all_tokens ==
    [i \in SentenceIds |->
        /\ reject_reason[i] = ""
        /\ Len(fields_of[i]) > highest_index(sentence_type_of(Sentence(i)))]

\* the type a PTNL sentence names after its 4-character prefix, <<>> for the
\* sentences that are not valid PTNL sentences
trimble_type ==
    [i \in SentenceIds |->
        IF check_nmea_checksum(Sentence(i)) /\ EnvelopeMatches(Sentence(i), {PTNL})
        THEN SliceFrom(fields_of[i][1], 5)
        ELSE <<>>]

Called == nmea_string # 0

\* the last call decoded a sentence of this type
Decoded(sentence_type) ==
    Called /\ parsed_sentence.status = "dict" /\ parsed_sentence.type = sentence_type

Count(topic) == Cardinality({k \in 1..Len(published) : published[k][1] = topic})

Message(topic) == published[CHOOSE k \in 1..Len(published) : published[k][1] = topic][2]

Exceptions == {"IndexError", "ValueError", "NameError"}

\* C1: a sentence with an invalid checksum, a malformed envelope, an
\* unsupported type or fewer tokens than the highest index of its field
\* table is rejected: the call returns False and publishes nothing, and no
\* exception leaves it.
C1_RejectedNotRaised ==
    Called /\ reject_reason[nmea_string] # "" => result = "False" /\ published = <<>>

\* the status the claim C2 gives for a fix-quality token
C2_status_of_token(token) ==
    LET q == IF IsIntLiteral(token) THEN IntValue(token) ELSE 0
    IN  CASE q = 0 -> "STATUS_NO_FIX"
          [] q = 1 -> "STATUS_FIX"
          [] q = 2 -> "STATUS_SBAS_FIX"
          [] q = 4 -> "STATUS_GBAS_FIX"
          [] q = 5 -> "STATUS_GBAS_FIX"
          [] q = 9 -> "STATUS_SBAS_FIX"
          [] OTHER -> "STATUS_NO_FIX"

\* C2: a GGA sentence translated with use_RMC false publishes a fix whose
\* status is given by the fix-quality token: 0 NO_FIX, 1 FIX, 2 SBAS_FIX,
\* 4 and 5 GBAS_FIX, 9 SBAS_FIX, any other integer and any token that is not
\* an integer NO_FIX.
C2_FixStatusByQuality ==
    Decoded(GGA) /\ ~use_RMC =>
        /\ Count("fix") = 1
        /\ Message("fix").status = C2_status_of_token(fields_of[nmea_string][7])

\* C2 witness: a GGA sentence of quality 9 was published as an SBAS fix.
C2_Witness ==
    /\ Decoded(GGA) /\ ~use_RMC
    /\ fields_of[nmea_string][7] = <<"9">>
    /\ Count("fix") = 1
    /\ Message("fix").status = "STATUS_SBAS_FIX"

\* C3: a decoded GGA sentence publishes a fix exactly when use_RMC is false,
\* a decoded RMC sentence exactly when use_RMC is true, so all fixes come
\* from one sentence type; an RMC sentence publishes its two velocity
\* records exactly when its validity flag is true, whatever use_RMC is.
C3_FixSourceArbitration ==
    /\ Decoded(GGA) => (Count("fix") = 1 <=> ~use_RMC) /\ Count("fix") <= 1
    /\ Decoded(RMC) =>
        /\ (Count("fix") = 1 <=> use_RMC) /\ Count("fix") <= 1
        /\ Count("vel") = (IF parsed_sentence.data["fix_valid"] THEN 1 ELSE 0)
        /\ Count("vel_local") = (IF parsed_sentence.data["fix_valid"] THEN 1 ELSE 0)
    /\ fix_sources \subseteq {IF use_RMC THEN RMC ELSE GGA}

\* C3 witness: with use_RMC false, after a GGA fix, a valid RMC sentence
\* published its velocities and no fix.
C3_Witness ==
    /\ ~use_RMC /\ Decoded(RMC) /\ parsed_sentence.data["fix_valid"]
    /\ Count("fix") = 0 /\ Count("vel") = 1 /\ Count("vel_local") = 1
    /\ fix_sources = {GGA}

\* C4: a PTNL sentence that names AVR, PJT or LLQ after the 4-character
\* prefix is classified as that type and decoded with its field table.
C4_TrimbleTypeClassified ==
    Called /\ trimble_type[nmea_string] \in {AVR, PJT, LLQ} =>
        parsed_sentence.type = trimble_type[nmea_string]

\* C5: a decoded HDT sentence whose heading is a number publishes a heading
\* record carrying it, a heading of zero included.
C5_HeadingPublished ==
    Decoded(HDT) /\ ~IsNaN(parsed_sentence.data["heading_north"]) =>
        /\ Count("hdt") = 1
        /\ Message("hdt").data = parsed_sentence.data["heading_north"]

\* C6: no converter raises: a sentence of a supported type with a token for
\* every entry of its field table is decoded whatever its tokens are.
C6_ConvertersNeverRaise ==
    Called /\ has_all_tokens[nmea_string] => parsed_sentence.status = "dict"

\* the last call translated a sentence into a position fix
FixSentence == (Decoded(GGA) /\ ~use_RMC) \/ (Decoded(RMC) /\ use_RMC)

\* C7: a sentence translated into a position fix publishes the fix, and a
\* time reference in the same call exactly when its utc_time is not NaN; a
\* sentence without a time-of-day token publishes the fix and no time
\* reference.
C7_TimeReferenceIffTimeKnown ==
    FixSentence =>
        /\ Count("fix") = 1
        /\ Count("time_reference") = (IF IsNaN(parsed_sentence.data["utc_time"]) THEN 0 ELSE 1)
        /\ fields_of[nmea_string][2] = <<>> => Count("time_reference") = 0

\* C7 witness: a sentence without a time-of-day token published a fix and no
\* time reference.
C7_Witness ==
    /\ FixSentence
    /\ fields_of[nmea_string][2] = <<>>
    /\ Count("fix") = 1
    /\ Count("time_reference") = 0

\* C8: a decoded AVR sentence publishes one attitude record (angular z, y, x
\* = yaw, pitch, roll, with the frame of the call) when fix_type > 0 and none
\* otherwise, and the call completes in both cases.
C8_AttitudePublished ==
    Decoded(AVR) =>
        /\ result \notin Exceptions
        /\ IF parsed_sentence.data["fix_type"] > 0
           THEN /\ Count("pyr") = 1
                /\ Message("pyr").frame_id = frame_id
                /\ Message("pyr").angular_z = parsed_sentence.data["yaw"]
                /\ Message("pyr").angular_y = parsed_sentence.data["pitch"]
                /\ Message("pyr").angular_x = parsed_sentence.data["roll"]
           ELSE published = <<>>

\* C9: a call with the sentence, frame_id and (non-zero) timestamp of the
\* call before it returns and publishes what that call did, whatever the
\* clock did in between.
C9_SameCallSameRecords ==
    [][(/\ Called
        /\ nmea_string' = nmea_string
        /\ frame_id' = frame_id
        /\ timestamp' = timestamp
        /\ timestamp # <<>>
        /\ timestamp[1] # 0)
       => (result' = result /\ published' = published)]_vars

\* the last call's sentence was handled by a branch of add_sentence
Handled ==
    \/ Decoded(GGA) /\ ~use_RMC
    \/ \E sentence_type \in {RMC, HDT, ROT, VTG, AVR} : Decoded(sentence_type)

\* C10: add_sentence returns True when the sentence passed the checksum, was
\* parsed and was handled by a branch, and False otherwise.
C10_ReturnsTrueWhenHandled ==
    Called => result = (IF Handled THEN "True" ELSE "False")

====
